---- MODULE Spec2Model ----
(***************************************************************************)
(* VistaraBI AI service (src/ai): a FastAPI application with five route    *)
(* groups.  Every handler is an `async def` without an await, so one call  *)
(* runs to completion on the event loop; requests of different clients     *)
(* interleave at the granularity of whole handler calls.                   *)
(***************************************************************************)
EXTENDS Integers, Sequences, FiniteSets, TLC

VARIABLES app, requests

vars == <<app, requests>>

\* The number of requests a run of the model accepts.
MaxRequests == 2

\* ------------------------------------------------------------------ values

\* A Python float with six decimals: Float(10500, 500000) is 10500.50.
Float(whole, micro) == [int |-> whole, micro |-> micro]

\* Python None.
None == "None"

\* The elements of a list.
Range(seq) == { seq[n] : n \in 1..Len(seq) }

RGR == "Revenue Growth Rate"
CAC == "Customer Acquisition Cost"
AOV == "Average Order Value"

\* ------------------------------------------------------------------ request bodies

\* routes/goals.py GoalRequest: no validator constrains the two values.
GoalRequest ==
  { [goal_text |-> t, target_value |-> v[2], current_value |-> v[1],
     deadline |-> "2025-12-31", available_kpis |-> ks] :
      t \in {"increase revenue growth", "improve efficiency"},
      v \in {<<Float(100, 0), Float(150, 0)>>,
             <<Float(0, 0), Float(150, 0)>>,
             <<Float(100, 0), Float(-5, 0)>>},
      ks \in {<<RGR, CAC>>, <<RGR, CAC, AOV>>} }

\* The GoalRequest bodies sent to /estimate: one goal text and KPI list, every
\* pair of values.
EstimateRequest ==
  { r \in GoalRequest :
      r.goal_text = "increase revenue growth" /\ r.available_kpis = <<RGR, CAC>> }

\* routes/kpis.py KPIRequest.
KPIRequest ==
  { [domain |-> d, columns |-> cs, data_sample |-> [revenue |-> 100]] :
      d \in {"retail", "finance"},
      cs \in {<< >>, <<"revenue", "date">>, <<"marketing_spend", "new_customers">>} }

\* routes/domain.py DomainRequest.
DomainRequest ==
  { [data |-> [revenue |-> 100], columns |-> cs] :
      cs \in {<<"revenue", "date">>, <<"patient_id">>} }

\* routes/chat.py ChatMessage.
ChatMessage ==
  { [message |-> m, context |-> None, conversation_id |-> None] :
      m \in {"What was our revenue last month?", "hello"} }

\* routes/forecast.py ForecastRequest.
ForecastRequest ==
  { [data |-> << >>, target_column |-> "revenue", periods |-> p,
     confidence_interval |-> Float(0, 950000)] : p \in {1, 2} }

\* The Dict[str, Any] bodies of /suggestions and /scenarios.
AnyDict == { [page |-> p] : p \in {"dashboard", "upload"} }

\* The path parameter of GET /library/{domain}.
DomainParam == { [domain |-> d] : d \in {"retail", "finance"} }

\* A GET without parameters.
NoParams == [empty |-> TRUE]

\* ------------------------------------------------------------------ handlers

\* Every handler returns a dict, which FastAPI serialises as the response;
\* none raises.
Return(body) == [raised |-> None, body |-> body]

detect_domain(request) ==
  Return([domain |-> "retail",
          confidence |-> Float(0, 850000),
          suggestions |-> <<"Consider adding product_id column",
                            "Revenue data looks good">>])

get_available_domains(request) ==
  Return([domains |-> <<"retail", "finance", "healthcare", "manufacturing",
                        "logistics", "marketing", "hr", "sales">>])

extract_kpis(request) ==
  Return([kpis |-> <<
            [name |-> RGR,
             description |-> "Year-over-year revenue growth percentage",
             formula |-> "((current_revenue - previous_revenue) / previous_revenue) * 100",
             category |-> "Financial",
             priority |-> 1],
            [name |-> CAC,
             description |-> "Average cost to acquire a new customer",
             formula |-> "total_marketing_spend / new_customers",
             category |-> "Marketing",
             priority |-> 2] >>,
          recommendations |-> <<"Add customer_id column to track customer metrics",
                                "Include date column for time-based analysis">>])

get_kpi_library(request) ==
  Return([domain |-> request.domain, kpis |-> << >>])

\* chat as it would be with a module-level conversation history: the reply
\* depends on the chat requests answered before.
chat_with_history(message) ==
  Return([response |->
            IF \E j \in 1..Len(requests) :
                 requests[j].done /\ requests[j].route = "POST /api/ai/chat/"
            THEN "As I said, this feature is coming soon!"
            ELSE "I understand you're asking about sales data. This feature is coming soon!",
          suggestions |-> <<"What was our revenue last month?",
                            "Show me top 5 products",
                            "Compare this quarter to last quarter">>,
          sql_query |-> None,
          visualization_type |-> "bar_chart"])

chat(message) ==
  Return([response |-> "I understand you're asking about sales data. This feature is coming soon!",
          suggestions |-> <<"What was our revenue last month?",
                            "Show me top 5 products",
                            "Compare this quarter to last quarter">>,
          sql_query |-> None,
          visualization_type |-> "bar_chart"])

get_suggestions(context) ==
  Return([suggestions |-> <<"What are my top performing products?",
                            "Show me revenue trends",
                            "How are we performing this month?">>])

\* A dependencies literal in which two KPIs depend on each other.
dependencies_cyclic == (RGR :> <<CAC, AOV>>) @@ (CAC :> <<RGR>>)

\* The dependencies literal of the /map payload.
dependencies == (RGR :> <<CAC, AOV>>)

\* The timeline literal of the /map payload.
timeline ==
  << [week |-> 1,
      actions |-> <<"Optimize Marketing Campaigns">>,
      expected_impact |-> Float(0, 150000)] >>

\* map_goal_to_kpis as it would be if the dependencies were computed from the
\* request: only the available ones are listed.
map_goal_to_kpis_filtering(request) ==
  LET Available(k) == k \in Range(request.available_kpis)
  IN  Return([mapped_kpis |-> <<RGR, CAC>>,
              actions |-> <<
                [title |-> "Optimize Marketing Campaigns",
                 description |-> "Focus on high-performing channels to reduce CAC",
                 priority |-> "high", impact |-> "high", effort |-> "medium"],
                [title |-> "Improve Conversion Rate",
                 description |-> "A/B test landing pages to increase conversions",
                 priority |-> "medium", impact |-> "medium", effort |-> "low"] >>,
              dependencies |-> (RGR :> SelectSeq(<<CAC, AOV>>, Available)),
              timeline |-> << [week |-> 1,
                               actions |-> <<"Optimize Marketing Campaigns">>,
                               expected_impact |-> Float(0, 150000)] >>])

map_goal_to_kpis(request) ==
  Return([mapped_kpis |-> <<RGR, CAC>>,
          actions |-> <<
            [title |-> "Optimize Marketing Campaigns",
             description |-> "Focus on high-performing channels to reduce CAC",
             priority |-> "high", impact |-> "high", effort |-> "medium"],
            [title |-> "Improve Conversion Rate",
             description |-> "A/B test landing pages to increase conversions",
             priority |-> "medium", impact |-> "medium", effort |-> "low"] >>,
          dependencies |-> dependencies,
          timeline |-> timeline])

estimate_goal_feasibility(request) ==
  Return([feasible |-> TRUE,
          confidence |-> Float(0, 750000),
          reasoning |-> "Based on current trends, this goal is achievable",
          recommendations |-> << >>])

generate_forecast(request) ==
  Return([predictions |-> <<
            [date |-> "2024-01-01", value |-> Float(10500, 500000)],
            [date |-> "2024-02-01", value |-> Float(11200, 750000)] >>,
          confidence_intervals |-> <<
            [date |-> "2024-01-01", lower |-> Float(9500, 0), upper |-> Float(11500, 0)],
            [date |-> "2024-02-01", lower |-> Float(10200, 0), upper |-> Float(12200, 0)] >>,
          model_used |-> "prophet",
          accuracy_metrics |-> [mae |-> Float(250, 500000),
                                rmse |-> Float(320, 800000),
                                mape |-> Float(2, 500000)]])

generate_scenarios(data) ==
  Return([scenarios |-> <<
            [name |-> "Optimistic",
             assumptions |-> [growth_rate |-> Float(0, 150000)],
             forecast |-> << >>],
            [name |-> "Pessimistic",
             assumptions |-> [growth_rate |-> Float(0, 50000)],
             forecast |-> << >>] >>])

\* ------------------------------------------------------------------ the application

\* app.include_router: the route table, prefix plus the router's path.
include_router ==
  {"POST /api/ai/domain/detect", "GET /api/ai/domain/domains",
   "POST /api/ai/kpis/extract", "GET /api/ai/kpis/library/{domain}",
   "POST /api/ai/chat/", "POST /api/ai/chat/suggestions",
   "POST /api/ai/goals/map", "POST /api/ai/goals/estimate",
   "POST /api/ai/forecast/predict", "POST /api/ai/forecast/scenarios"}

\* The response slot of a request no handler has answered yet.
NoResponse == [raised |-> None, body |-> [pending |-> TRUE]]

Init ==
  /\ app = [routes |-> include_router]
  /\ requests = << >>

\* A client sends a request to a registered route; it waits for its handler.
Receive(route, arg) ==
  /\ Len(requests) < MaxRequests
  /\ route \in app.routes
  /\ requests' = Append(requests,
                        [route |-> route, arg |-> arg, done |-> FALSE,
                         response |-> NoResponse])
  /\ UNCHANGED app

Pending(i, route) ==
  /\ i \in 1..Len(requests)
  /\ ~requests[i].done
  /\ requests[i].route = route

Respond(i, response) ==
  /\ requests' = [requests EXCEPT ![i].done = TRUE, ![i].response = response]
  /\ UNCHANGED app

Call_detect_domain(i) ==
  /\ Pending(i, "POST /api/ai/domain/detect")
  /\ Respond(i, detect_domain(requests[i].arg))

Call_get_available_domains(i) ==
  /\ Pending(i, "GET /api/ai/domain/domains")
  /\ Respond(i, get_available_domains(requests[i].arg))

Call_extract_kpis(i) ==
  /\ Pending(i, "POST /api/ai/kpis/extract")
  /\ Respond(i, extract_kpis(requests[i].arg))

Call_get_kpi_library(i) ==
  /\ Pending(i, "GET /api/ai/kpis/library/{domain}")
  /\ Respond(i, get_kpi_library(requests[i].arg))

Call_chat(i) ==
  /\ Pending(i, "POST /api/ai/chat/")
  /\ Respond(i, chat(requests[i].arg))

Call_get_suggestions(i) ==
  /\ Pending(i, "POST /api/ai/chat/suggestions")
  /\ Respond(i, get_suggestions(requests[i].arg))

Call_map_goal_to_kpis(i) ==
  /\ Pending(i, "POST /api/ai/goals/map")
  /\ Respond(i, map_goal_to_kpis(requests[i].arg))

Call_estimate_goal_feasibility(i) ==
  /\ Pending(i, "POST /api/ai/goals/estimate")
  /\ Respond(i, estimate_goal_feasibility(requests[i].arg))

Call_generate_forecast(i) ==
  /\ Pending(i, "POST /api/ai/forecast/predict")
  /\ Respond(i, generate_forecast(requests[i].arg))

Call_generate_scenarios(i) ==
  /\ Pending(i, "POST /api/ai/forecast/scenarios")
  /\ Respond(i, generate_scenarios(requests[i].arg))

Next ==
  \/ \E r \in DomainRequest : Receive("POST /api/ai/domain/detect", r)
  \/ Receive("GET /api/ai/domain/domains", NoParams)
  \/ \E r \in KPIRequest : Receive("POST /api/ai/kpis/extract", r)
  \/ \E r \in DomainParam : Receive("GET /api/ai/kpis/library/{domain}", r)
  \/ \E r \in ChatMessage : Receive("POST /api/ai/chat/", r)
  \/ \E r \in AnyDict : Receive("POST /api/ai/chat/suggestions", r)
  \/ \E r \in GoalRequest : Receive("POST /api/ai/goals/map", r)
  \/ \E r \in EstimateRequest : Receive("POST /api/ai/goals/estimate", r)
  \/ \E r \in ForecastRequest : Receive("POST /api/ai/forecast/predict", r)
  \/ \E r \in AnyDict : Receive("POST /api/ai/forecast/scenarios", r)
  \/ \E i \in 1..MaxRequests : Call_detect_domain(i)
  \/ \E i \in 1..MaxRequests : Call_get_available_domains(i)
  \/ \E i \in 1..MaxRequests : Call_extract_kpis(i)
  \/ \E i \in 1..MaxRequests : Call_get_kpi_library(i)
  \/ \E i \in 1..MaxRequests : Call_chat(i)
  \/ \E i \in 1..MaxRequests : Call_get_suggestions(i)
  \/ \E i \in 1..MaxRequests : Call_map_goal_to_kpis(i)
  \/ \E i \in 1..MaxRequests : Call_estimate_goal_feasibility(i)
  \/ \E i \in 1..MaxRequests : Call_generate_forecast(i)
  \/ \E i \in 1..MaxRequests : Call_generate_scenarios(i)

Spec == Init /\ [][Next]_vars

\* ------------------------------------------------------------------ reading the state

MAP == "POST /api/ai/goals/map"
ESTIMATE == "POST /api/ai/goals/estimate"
EXTRACT == "POST /api/ai/kpis/extract"
LIBRARY == "GET /api/ai/kpis/library/{domain}"

\* Request i has been answered by the handler of `route`.
Done(i, route) ==
  /\ i \in 1..Len(requests)
  /\ requests[i].done
  /\ requests[i].route = route

Slots == 1..Len(requests)

\* x <= 0 for a Float (int is the floor, micro the non-negative rest).
NonPositive(x) == x.int < 0 \/ (x.int = 0 /\ x.micro = 0)

\* ------------------------------------------------------------------ C1

\* C1: for goal_text "increase revenue growth" and available_kpis
\* [Revenue Growth Rate, Customer Acquisition Cost], /map returns mapped_kpis
\* exactly [Revenue Growth Rate]; Customer Acquisition Cost is not in it.
C1_MapsOnlyKeywordKPIs ==
  \A i \in Slots :
    ( /\ Done(i, MAP)
      /\ requests[i].arg.goal_text = "increase revenue growth"
      /\ requests[i].arg.available_kpis = <<RGR, CAC>> )
    => /\ requests[i].response.raised = None
       /\ requests[i].response.body.mapped_kpis = <<RGR>>
       /\ CAC \notin Range(requests[i].response.body.mapped_kpis)

\* ------------------------------------------------------------------ C2

\* C2: a goal text without a keyword match ("improve efficiency") ends /map
\* in UnmappableGoalError; it never gets a successful response.
C2_UnmappableGoalRaises ==
  \A i \in Slots :
    (Done(i, MAP) /\ requests[i].arg.goal_text = "improve efficiency")
    => requests[i].response.raised = "UnmappableGoalError"

\* ------------------------------------------------------------------ C3

\* C3: /estimate fails with InvalidGoalParametersError whenever
\* current_value <= 0 or target_value <= 0, and returns no result then.
C3_NonPositiveValuesRaise ==
  \A i \in Slots :
    ( /\ Done(i, ESTIMATE)
      /\ \/ NonPositive(requests[i].arg.current_value)
         \/ NonPositive(requests[i].arg.target_value) )
    => /\ requests[i].response.raised = "InvalidGoalParametersError"
       /\ "feasible" \notin DOMAIN requests[i].response.body

\* ------------------------------------------------------------------ C4

\* C4: every dependency name listed under a KPI in the dependencies mapping
\* /map returns is one of the request's available_kpis.
C4_DependenciesAreAvailable ==
  \A i \in Slots :
    (Done(i, MAP) /\ requests[i].response.raised = None)
    => \A k \in DOMAIN requests[i].response.body.dependencies :
         Range(requests[i].response.body.dependencies[k])
           \subseteq Range(requests[i].arg.available_kpis)

\* ------------------------------------------------------------------ C8

RECURSIVE SumImpactMicro(_)
\* The sum of the buckets' expected_impact, in millionths.
SumImpactMicro(buckets) ==
  IF buckets = << >> THEN 0
  ELSE Head(buckets).expected_impact.int * 1000000
       + Head(buckets).expected_impact.micro
       + SumImpactMicro(Tail(buckets))

\* C8: whenever the returned action plan is non-empty, the expected_impact
\* of the timeline's weekly buckets sums to 1.0 within 1e-6.
C8_TimelineImpactSumsToOne ==
  \A i \in Slots :
    ( /\ Done(i, MAP)
      /\ requests[i].response.raised = None
      /\ requests[i].response.body.actions # << >> )
    => LET total == SumImpactMicro(requests[i].response.body.timeline)
       IN  total >= 1000000 - 1 /\ total <= 1000000 + 1

\* ------------------------------------------------------------------ C5

\* The ranking vocabulary of the KPI Ranking Engine, for the two library
\* entries of its retail scenario: requiredFields, domainAffinity (tenths).
requiredFields(name) ==
  IF name = RGR THEN {"revenue"} ELSE {"marketing_spend", "new_customers"}

domainAffinityRetail(name) == IF name = RGR THEN 9 ELSE 5

\* relevanceScore = 0.6 * domainAffinity + 0.4 * coverage, in thousandths.
relevanceScore(name, columns) ==
  60 * domainAffinityRetail(name)
  + (400 * Cardinality(requiredFields(name) \cap Range(columns)))
      \div Cardinality(requiredFields(name))

\* Lexicographic order of the KPI names that occur.
NameRank(name) == IF name = AOV THEN 1 ELSE IF name = CAC THEN 2 ELSE 3

\* a may stand before b: relevanceScore descending, then priority ascending,
\* then name.
RankedBefore(a, b, columns) ==
  LET sa == relevanceScore(a.name, columns)
      sb == relevanceScore(b.name, columns)
  IN  \/ sa > sb
      \/ sa = sb /\ a.priority < b.priority
      \/ sa = sb /\ a.priority = b.priority /\ NameRank(a.name) <= NameRank(b.name)

\* C5: the kpis list of /extract is sorted by relevanceScore descending, ties
\* by priority ascending and then by name (stated for the retail domain,
\* whose affinities the ranking scenario gives), and two calls with the same
\* domain, columns and data_sample return the same list.
C5_KpisRankedByRelevance ==
  /\ \A i \in Slots :
       (Done(i, EXTRACT) /\ requests[i].arg.domain = "retail")
       => LET kpis == requests[i].response.body.kpis
          IN  \A m, n \in 1..Len(kpis) :
                m < n => RankedBefore(kpis[m], kpis[n], requests[i].arg.columns)
  /\ \A i, j \in Slots :
       (Done(i, EXTRACT) /\ Done(j, EXTRACT) /\ requests[i].arg = requests[j].arg)
       => requests[i].response.body.kpis = requests[j].response.body.kpis

\* ------------------------------------------------------------------ C6

\* C6: with an empty columns list /extract does not error and returns at
\* most three KPIs, each with an empty matchedFields.
C6_EmptyColumnsBestEffort ==
  \A i \in Slots :
    (Done(i, EXTRACT) /\ requests[i].arg.columns = << >>)
    => /\ requests[i].response.raised = None
       /\ Len(requests[i].response.body.kpis) <= 3
       /\ \A k \in Range(requests[i].response.body.kpis) :
            /\ "matchedFields" \in DOMAIN k
            /\ k.matchedFields = {}

\* ------------------------------------------------------------------ C7

\* The KPI names of a dependencies mapping.
Nodes(graph) ==
  DOMAIN graph \cup UNION { Range(graph[k]) : k \in DOMAIN graph }

Successors(graph, n) == IF n \in DOMAIN graph THEN Range(graph[n]) ELSE {}

RECURSIVE ReachableFrom(_, _, _)
\* The nodes reachable from the set `from` in at most `steps` edges.
ReachableFrom(graph, from, steps) ==
  IF steps = 0 THEN from
  ELSE ReachableFrom(graph,
                     from \cup UNION { Successors(graph, n) : n \in from },
                     steps - 1)

\* No KPI depends, directly or through others, on itself.
Acyclic(graph) ==
  \A n \in Nodes(graph) :
    n \notin ReachableFrom(graph, Successors(graph, n), Cardinality(Nodes(graph)))

C9_NoSharedMutableState ==
  /\ [][app' = app]_vars
  /\ [](\A i, j \in Slots :
          ( /\ requests[i].done /\ requests[j].done
            /\ requests[i].route = requests[j].route
            /\ requests[i].arg = requests[j].arg )
          => requests[i].response = requests[j].response)

\* The same request was sent twice and answered twice, the second time after
\* the first had been answered.
C9_Witness ==
  /\ Len(requests) = 2
  /\ requests[1].done /\ requests[2].done
  /\ requests[1].route = requests[2].route
  /\ requests[1].arg = requests[2].arg

\* ------------------------------------------------------------------ C10

\* C10 as stated: any two requests to the same handler get identical
\* responses, whatever their bodies or path parameters.
C10_EveryHandlerHardcoded ==
  \A i, j \in Slots :
    ( /\ requests[i].done /\ requests[j].done
      /\ requests[i].route = requests[j].route )
    => requests[i].response = requests[j].response

\* C10 as amended: any two requests to the same handler get identical
\* responses, except for get_kpi_library, whose response carries the
\* request's domain path parameter in its domain field and is otherwise the
\* same for every request.
C10_HardcodedExceptLibraryDomain ==
  /\ \A i, j \in Slots :
       ( /\ requests[i].done /\ requests[j].done
         /\ requests[i].route = requests[j].route
         /\ requests[i].route # LIBRARY )
       => requests[i].response = requests[j].response
  /\ \A i, j \in Slots :
       (Done(i, LIBRARY) /\ Done(j, LIBRARY))
       => /\ requests[i].response.body.domain = requests[i].arg.domain
          /\ [requests[i].response EXCEPT !.body.domain = ""]
               = [requests[j].response EXCEPT !.body.domain = ""]

\* Two requests with different bodies were answered by the same handler,
\* one that is not get_kpi_library.
C10_Witness ==
  \E i, j \in Slots :
    /\ requests[i].done /\ requests[j].done
    /\ requests[i].route = requests[j].route
    /\ requests[i].route # LIBRARY
    /\ requests[i].arg # requests[j].arg

====
